---- MODULE Spec2Model ----
(***************************************************************************)
(* Model of maxcalorie.hh: filter_food_vector, sum_food_vector,            *)
(* exhaustive_max_calories and dynamic_max_calories.                       *)
(*                                                                         *)
(* A FoodItem is a record of its weight and its calories.  Weights and     *)
(* real-valued capacities are doubles in the source; here they are counted *)
(* in units of 1/Scale ounce, so that a weight of Scale+1 units is the     *)
(* non-integral weight 1 + 1/Scale.  A FoodVector holds shared pointers:   *)
(* a vector built from another one is modelled as the sequence of the      *)
(* (1-based) positions of the pointed-to items in the vector it was built  *)
(* from, which keeps pointer identity when two items have equal fields.    *)
(***************************************************************************)
EXTENDS Integers, Sequences, FiniteSets

(* ---- bounds of the model ---- *)
Scale == 2
MaxN == 3
MaxCap == 3

(* ---- the int type of the source ---- *)
IntBits == 32

RECURSIVE Pow2(_)
Pow2(n) == IF n = 0 THEN 1 ELSE 2 * Pow2(n - 1)

(* 2^(IntBits-1) - 1 and its negative less one, computed without leaving   *)
(* the range of an int.                                                    *)
INT_MAX == 2 * (Pow2(IntBits - 2) - 1) + 1
INT_MIN == (0 - INT_MAX) - 1

(* ---- inputs ---- *)
Weights == {Scale, Scale + 1}
Calories == {-1, 0, 1, 2}
FoodItem == [weight : Weights, calories : Calories]

SmallFoodVectors == UNION {[1..n -> FoodItem] : n \in 0..MaxN}

(* Vectors of 31 and 32 items: the least sizes for which 2^n is not an int *)
(* (the assertion n < 64 accepts them).                                    *)
LargeSizes == {IntBits - 1, IntBits}
LargeFoodVectors ==
    {[k \in 1..n |-> [weight |-> Scale, calories |-> 1]] : n \in LargeSizes}

FoodVectors == SmallFoodVectors \cup LargeFoodVectors

(* std::unique_ptr<FoodVector>: null, or owning a vector.                   *)
nullptr == [null |-> TRUE, vec |-> <<>>]
Owned(v) == [null |-> FALSE, vec |-> v]

VARIABLES
    all_foods,          \* the FoodVector every call is made on
    capacity,           \* the weight limit of the solver calls, in 1/Scale
    called,             \* the functions called so far
    min_calories,       \* arguments of the filter_food_vector call
    max_calories,
    total_size,
    filtered,           \* its return value
    nSquared,           \* subset count of the exhaustive_max_calories call
    solution,           \* its return value
    dynamic_solution    \* return value of the dynamic_max_calories call

vars == <<all_foods, capacity, called, min_calories, max_calories, total_size,
          filtered, nSquared, solution, dynamic_solution>>

(* The items a vector of positions points to.                              *)
Deref(vec, foods) == [k \in 1..Len(vec) |-> foods[vec[k]]]

(* sum_food_vector: totals of a vector of items, summed front to back.      *)
RECURSIVE SumFrom(_, _, _, _)
SumFrom(foods, k, total_weight, total_calories) ==
    IF k > Len(foods)
    THEN [weight |-> total_weight, calories |-> total_calories]
    ELSE SumFrom(foods, k + 1, total_weight + foods[k].weight,
                 total_calories + foods[k].calories)

sum_food_vector(foods) == SumFrom(foods, 1, 0, 0)

(* ------------------------- filter_food_vector ------------------------- *)

(* Faulty variant of the usage check: only a negative size is refused.     *)
InvalidTotalSizeNegative(size) == size < 0

(* The usage check on the vector size asked for.                           *)
InvalidTotalSize(size) == size <= 0

(* Faulty variant of the append condition: calories > 0 is not required.   *)
FilterKeepsNonPositive(food, min_c, max_c, newSize, size) ==
    /\ food.calories >= min_c
    /\ food.calories <= max_c
    /\ newSize < size

(* The condition under which the scan appends an item.                     *)
FilterKeeps(food, min_c, max_c, newSize, size) ==
    /\ food.calories > 0
    /\ food.calories >= min_c
    /\ food.calories <= max_c
    /\ newSize < size

(* The scan over source, front to back; newFood is the vector built.       *)
RECURSIVE FilterFrom(_, _, _, _, _, _)
FilterFrom(source, k, min_c, max_c, size, newFood) ==
    IF k > Len(source)
    THEN newFood
    ELSE FilterFrom(source, k + 1, min_c, max_c, size,
                    IF FilterKeeps(source[k], min_c, max_c, Len(newFood), size)
                    THEN Append(newFood, k)
                    ELSE newFood)

filter_food_vector(source, min_c, max_c, size) ==
    IF InvalidTotalSize(size)
    THEN nullptr
    ELSE Owned(FilterFrom(source, 1, min_c, max_c, size, <<>>))

(* ----------------------- exhaustive_max_calories ----------------------- *)

(* int nSquared = pow(2, n): the double 2^n converted to int.  The         *)
(* conversion is undefined when 2^n is no int; the builds in use then give *)
(* INT_MIN (x86), INT_MAX (saturating conversions) or the low IntBits bits *)
(* of 2^n as a two's complement int: INT_MIN for n = IntBits - 1, else 0.  *)
SubsetCount(n) ==
    IF n <= IntBits - 2
    THEN {Pow2(n)}
    ELSE {INT_MIN, INT_MAX, IF n = IntBits - 1 THEN INT_MIN ELSE 0}

(* ((i >> j) & 1) == 1 *)
BitSet(i, j) == (i \div Pow2(j)) % 2 = 1

(* The candidate of mask i: the items whose bit is set, by rising j.       *)
RECURSIVE CandidateFrom(_, _, _, _)
CandidateFrom(i, j, n, candidate) ==
    IF j >= n
    THEN candidate
    ELSE CandidateFrom(i, j + 1, n,
                       IF BitSet(i, j) THEN Append(candidate, j + 1) ELSE candidate)

(* Faulty variant of the test below: the weight limit is not checked.      *)
TakesCandidateAnyWeight(candidateWeight, candidateCalories, bestEmpty, bestCalories, total_weight) ==
    bestEmpty \/ candidateCalories > bestCalories

(* Faulty variant of the test below: the calories are not compared, so the *)
(* last candidate within the weight limit wins.                            *)
TakesCandidateLast(candidateWeight, candidateCalories, bestEmpty, bestCalories, total_weight) ==
    candidateWeight <= total_weight

(* The test that gives the candidate to best.                              *)
TakesCandidate(candidateWeight, candidateCalories, bestEmpty, bestCalories, total_weight) ==
    /\ candidateWeight <= total_weight
    /\ (bestEmpty \/ candidateCalories > bestCalories)

(* The loop over the masks i, i+1, ..., count-1.                           *)
RECURSIVE ExhaustiveFrom(_, _, _, _, _)
ExhaustiveFrom(foods, total_weight, i, count, best) ==
    IF i >= count
    THEN best
    ELSE LET candidate == CandidateFrom(i, 0, Len(foods), <<>>)
             c == sum_food_vector(Deref(candidate, foods))
             b == sum_food_vector(Deref(best, foods))
         IN  ExhaustiveFrom(foods, total_weight, i + 1, count,
                 IF TakesCandidate(c.weight, c.calories, best = <<>>,
                                   b.calories, total_weight)
                 THEN candidate
                 ELSE best)

exhaustive_max_calories(foods, total_weight, count) ==
    Owned(ExhaustiveFrom(foods, total_weight, 0, count, <<>>))

(* ------------------------ dynamic_max_calories ------------------------ *)

Max(a, b) == IF a < b THEN b ELSE a

(* Faulty variant of the conversion below: rounded up, not cut.            *)
ColumnLessRoundedUp(w, weight) == (w * Scale - weight + Scale - 1) \div Scale

(* The int a column w less an item's weight converts to: w - weight cut    *)
(* toward zero (the difference is never negative where it is used).        *)
ColumnLess(w, weight) == (w * Scale - weight) \div Scale

(* K[i][w] for i > 0, from row i - 1.  A row is the tuple of its columns   *)
(* 0..W, column w at position w + 1.                                       *)
KEntry(foods, i, w, above) ==
    IF w = 0
    THEN 0
    ELSE IF foods[i].weight <= w * Scale
         THEN Max(foods[i].calories + above[ColumnLess(w, foods[i].weight) + 1],
                  above[w + 1])
         ELSE above[w + 1]

(* Columns w..W of row i > 0.                                              *)
RECURSIVE KRowFrom(_, _, _, _, _)
KRowFrom(foods, W, i, w, above) ==
    IF w > W
    THEN <<>>
    ELSE <<KEntry(foods, i, w, above)>> \o KRowFrom(foods, W, i, w + 1, above)

(* Rows 0..i of the table K, row r at position r + 1.                      *)
RECURSIVE KRows(_, _, _)
KRows(foods, W, i) ==
    IF i = 0
    THEN << [w \in 1..W + 1 |-> 0] >>
    ELSE LET rows == KRows(foods, W, i - 1)
         IN  Append(rows, KRowFrom(foods, W, i, 0, rows[i]))

(* Whether the walk back skips item i at column w.                         *)
Skips(K, i, w) == K[i + 1][w + 1] = K[i][w + 1]

(* Faulty variant of the walk back: a chosen item is put at the front.     *)
RECURSIVE ReconstructFront(_, _, _, _, _)
ReconstructFront(foods, K, i, w, best) ==
    IF i = 0
    THEN best
    ELSE IF Skips(K, i, w)
         THEN ReconstructFront(foods, K, i - 1, w, best)
         ELSE ReconstructFront(foods, K, i - 1, ColumnLess(w, foods[i].weight),
                               <<i>> \o best)

(* The walk back from row i and column w.                                  *)
RECURSIVE Reconstruct(_, _, _, _, _)
Reconstruct(foods, K, i, w, best) ==
    IF i = 0
    THEN best
    ELSE IF Skips(K, i, w)
         THEN Reconstruct(foods, K, i - 1, w, best)
         ELSE Reconstruct(foods, K, i - 1, ColumnLess(w, foods[i].weight),
                          Append(best, i))

dynamic_max_calories(foods, total_weight) ==
    LET n == Len(foods)
        K == KRows(foods, total_weight, n)
    IN  Owned(Reconstruct(foods, K, n, total_weight, <<>>))

(* ------------------------------ behaviour ------------------------------ *)

MinCalories == {-1, 2}
MaxCalories == {1, 2}
TotalSizes == -1 .. MaxN
(* Capacities, in units of 1/Scale: the whole ones 0..MaxCap and each of   *)
(* them plus 1/Scale.                                                      *)
Capacities == {w * Scale + f : w \in 0..MaxCap, f \in {0, 1}}

Init ==
    /\ all_foods \in FoodVectors
    /\ capacity \in Capacities
    /\ called = {}
    /\ min_calories = 0
    /\ max_calories = 0
    /\ total_size = 0
    /\ filtered = nullptr
    /\ nSquared = 0
    /\ solution = nullptr
    /\ dynamic_solution = nullptr

(* filter_food_vector(all_foods, min_c, max_c, size) *)
Filter(min_c, max_c, size) ==
    /\ "filter" \notin called
    /\ called' = called \cup {"filter"}
    /\ min_calories' = min_c
    /\ max_calories' = max_c
    /\ total_size' = size
    /\ filtered' = filter_food_vector(all_foods, min_c, max_c, size)
    /\ UNCHANGED <<all_foods, capacity, nSquared, solution, dynamic_solution>>

(* exhaustive_max_calories(all_foods, capacity).  The call asserts n < 64. *)
(* A count above 2^MaxN masks is left out: the loop over it is beyond the  *)
(* model's reach.                                                          *)
Exhaustive ==
    /\ "exhaustive" \notin called
    /\ Len(all_foods) < 2 * IntBits
    /\ \E count \in SubsetCount(Len(all_foods)) :
          /\ count <= Pow2(MaxN)
          /\ nSquared' = count
          /\ solution' = exhaustive_max_calories(all_foods, capacity, count)
    /\ called' = called \cup {"exhaustive"}
    /\ UNCHANGED <<all_foods, capacity, min_calories, max_calories, total_size,
                   filtered, dynamic_solution>>

(* dynamic_max_calories(all_foods, capacity), for a capacity that is an    *)
(* int, as the parameter is.                                               *)
Dynamic ==
    /\ "dynamic" \notin called
    /\ capacity % Scale = 0
    /\ called' = called \cup {"dynamic"}
    /\ dynamic_solution' = dynamic_max_calories(all_foods, capacity \div Scale)
    /\ UNCHANGED <<all_foods, capacity, min_calories, max_calories, total_size,
                   filtered, nSquared, solution>>

CallFilter == \E min_c \in MinCalories, max_c \in MaxCalories, size \in TotalSizes :
                  Filter(min_c, max_c, size)

(* The two solvers, each called once on all_foods with capacity.           *)
Next == Exhaustive \/ Dynamic
Spec == Init /\ [][Next]_vars

(* The filter, called once on all_foods.                                   *)
InitFilter == Init /\ capacity = 0
NextFilter == CallFilter
SpecFilter == InitFilter /\ [][NextFilter]_vars

(* ----------------------- vocabulary of the claims ----------------------- *)

n == Len(all_foods)
Range(vec) == {vec[k] : k \in 1..Len(vec)}
Reverse(vec) == [k \in 1..Len(vec) |-> vec[Len(vec) + 1 - k]]
TotalWeight(vec) == sum_food_vector(Deref(vec, all_foods)).weight
TotalCalories(vec) == sum_food_vector(Deref(vec, all_foods)).calories

ExhaustiveCalled == "exhaustive" \in called
DynamicCalled == "dynamic" \in called
FilterCalled == "filter" \in called

IntegralWeights == \A k \in 1..n : all_foods[k].weight % Scale = 0
PositiveCalories == \A k \in 1..n : all_foods[k].calories > 0

(* The subsets of the first k items whose total weight is at most capacity, *)
(* each as the rising sequence of its positions.                           *)
RECURSIVE FeasibleUpTo(_)
FeasibleUpTo(k) ==
    IF k = 0
    THEN {<<>>}
    ELSE LET prev == FeasibleUpTo(k - 1)
         IN  prev \cup {Append(p, k) :
                 p \in {q \in prev :
                           TotalWeight(q) + all_foods[k].weight <= capacity}}

FeasibleSubsets == FeasibleUpTo(n)

(* Subset a has a lower bitmask than subset b: the highest position in     *)
(* which they differ is in b.                                              *)
LowerMask(a, b) ==
    LET d == (Range(a) \ Range(b)) \cup (Range(b) \ Range(a))
    IN  /\ d # {}
        /\ (CHOOSE x \in d : \A y \in d : y <= x) \in Range(b)

StrictlyIncreasing(vec) == \A k \in 1..Len(vec) - 1 : vec[k] < vec[k + 1]
StrictlyDecreasing(vec) == \A k \in 1..Len(vec) - 1 : vec[k] > vec[k + 1]

(* x = 2^k, without computing 2^k.                                         *)
RECURSIVE IsPow2(_, _)
IsPow2(x, k) ==
    IF k = 0 THEN x = 1 ELSE x > 0 /\ x % 2 = 0 /\ IsPow2(x \div 2, k - 1)

(* ------------------------------- claims ------------------------------- *)

(* C1: exhaustive_max_calories is optimal: no subset of the input with     *)
(* total weight <= capacity has strictly greater total calories than the   *)
(* returned subset (n < 64, positive weights, any calories).               *)
C1_ExhaustiveOptimal ==
    ExhaustiveCalled =>
        \A s \in FeasibleSubsets :
            TotalCalories(s) <= TotalCalories(solution.vec)

(* C2: the total weight of what exhaustive_max_calories and                *)
(* dynamic_max_calories return does not exceed the capacity passed, for    *)
(* integral and non-integral item weights.                                 *)
C2_Feasible ==
    /\ ExhaustiveCalled => TotalWeight(solution.vec) <= capacity
    /\ DynamicCalled => TotalWeight(dynamic_solution.vec) <= capacity

(* Both solvers returned two or more items, one of non-integral weight.    *)
C2_Witness ==
    /\ DynamicCalled
    /\ Len(dynamic_solution.vec) >= 2
    /\ \E k \in Range(dynamic_solution.vec) : all_foods[k].weight % Scale # 0
    /\ ExhaustiveCalled
    /\ Len(solution.vec) >= 2
    /\ \E k \in Range(solution.vec) : all_foods[k].weight % Scale # 0

(* C3: for integral positive weights and calories > 0, n < 64 and an       *)
(* integer capacity, the total calories of dynamic_max_calories equal the  *)
(* total calories of exhaustive_max_calories.                              *)
C3_SameCalories ==
    (ExhaustiveCalled /\ DynamicCalled /\ IntegralWeights /\ PositiveCalories)
        => TotalCalories(dynamic_solution.vec) = TotalCalories(solution.vec)

(* C4: filter_food_vector with limit > 0 returns exactly the first         *)
(* min(limit, number of matching items) matching items of the source, in   *)
(* source order, skipping the others; so the result for a limit a <= b is  *)
(* the prefix of the result for b.                                         *)
Matches(food) ==
    /\ food.calories > 0
    /\ min_calories <= food.calories
    /\ food.calories <= max_calories

MatchingPositions ==
    LET Test(k) == Matches(all_foods[k])
    IN  SelectSeq([k \in 1..n |-> k], Test)

C4_FilterFirstMatches ==
    (FilterCalled /\ total_size > 0) =>
        /\ ~filtered.null
        /\ filtered.vec =
              SubSeq(MatchingPositions, 1,
                     IF total_size < Len(MatchingPositions)
                     THEN total_size ELSE Len(MatchingPositions))
        /\ \A a \in 1..total_size :
              LET r == filter_food_vector(all_foods, min_calories,
                                          max_calories, a).vec
              IN  /\ Len(r) <= Len(filtered.vec)
                  /\ r = SubSeq(filtered.vec, 1, Len(r))

(* The limit cut the result short, after the scan had skipped an item that *)
(* does not match.                                                         *)
C4_Witness ==
    /\ FilterCalled
    /\ total_size >= 1
    /\ Len(filtered.vec) = total_size
    /\ Len(MatchingPositions) > total_size
    /\ \E k \in 1..n : k < filtered.vec[total_size] /\ ~Matches(all_foods[k])

(* C5: when no non-empty subset is feasible (no items, capacity 0, or      *)
(* every item heavier than the capacity) both solvers return a non-null    *)
(* empty collection.                                                       *)
NothingFits == \A k \in 1..n : all_foods[k].weight > capacity

C5_DegenerateEmpty ==
    NothingFits =>
        /\ ExhaustiveCalled => solution = Owned(<<>>)
        /\ DynamicCalled => dynamic_solution = Owned(<<>>)

(* Both solvers ran on items that are all heavier than a capacity > 0.     *)
C5_Witness ==
    /\ NothingFits
    /\ ExhaustiveCalled
    /\ DynamicCalled
    /\ n > 0
    /\ capacity > 0

(* C6: for calories > 0 and positive weights, the total calories returned  *)
(* for a capacity are not less than those returned for any smaller         *)
(* capacity, by exhaustive_max_calories and (integer capacities) by        *)
(* dynamic_max_calories.                                                   *)
C6_MonotoneInCapacity ==
    PositiveCalories =>
        /\ ExhaustiveCalled =>
              \A c \in {x \in Capacities : x <= capacity} :
                  TotalCalories(exhaustive_max_calories(all_foods, c, nSquared).vec)
                      <= TotalCalories(solution.vec)
        /\ DynamicCalled =>
              \A W \in 0..(capacity \div Scale) :
                  TotalCalories(dynamic_max_calories(all_foods, W).vec)
                      <= TotalCalories(dynamic_solution.vec)

(* Both solvers returned strictly more calories than for a smaller         *)
(* capacity that already admits an item.                                   *)
C6_Witness ==
    /\ PositiveCalories
    /\ ExhaustiveCalled
    /\ DynamicCalled
    /\ \E W \in 1..(capacity \div Scale) :
          /\ 0 < TotalCalories(dynamic_max_calories(all_foods, W).vec)
          /\ TotalCalories(dynamic_max_calories(all_foods, W).vec)
                < TotalCalories(dynamic_solution.vec)
          /\ 0 < TotalCalories(exhaustive_max_calories(all_foods, W * Scale,
                                                       nSquared).vec)
          /\ TotalCalories(exhaustive_max_calories(all_foods, W * Scale,
                                                   nSquared).vec)
                < TotalCalories(solution.vec)

(* C7: filter_food_vector with total_size <= 0 returns a null pointer, not *)
(* an empty or partly filled collection.                                   *)
C7_NonPositiveLimitNull ==
    (FilterCalled /\ total_size <= 0) => filtered = nullptr

(* The filter was called with a limit <= 0 on a source with matching items. *)
C7_Witness ==
    /\ FilterCalled
    /\ total_size <= 0
    /\ Len(MatchingPositions) > 0

(* C8: the exhaustive result is the lowest-numbered mask among the         *)
(* feasible subsets of maximum calories: a later candidate of equal        *)
(* calories (a non-empty subset of 0 calories included) never replaces an  *)
(* earlier best, which starts as the empty subset.                         *)
C8_FirstFoundBest ==
    ExhaustiveCalled =>
        /\ solution.vec \in FeasibleSubsets
        /\ \A s \in FeasibleSubsets :
              \/ TotalCalories(s) < TotalCalories(solution.vec)
              \/ /\ TotalCalories(s) = TotalCalories(solution.vec)
                 /\ ~LowerMask(s, solution.vec)

(* C9: for every n < 64 the subset count held by the loop is 2^n, so every *)
(* bitmask from 0 to 2^n - 1 is visited.                                   *)
C9_CountIsPowerOfTwo ==
    ExhaustiveCalled => IsPow2(nSquared, n)

(* C10: dynamic_max_calories returns its items in strictly decreasing       *)
(* source order, exhaustive_max_calories in strictly increasing source     *)
(* order; when both choose the same items, one is the reverse of the other. *)
C10_OutputOrder ==
    /\ DynamicCalled =>
          /\ StrictlyDecreasing(dynamic_solution.vec)
          /\ Range(dynamic_solution.vec) \subseteq 1..n
    /\ ExhaustiveCalled =>
          /\ StrictlyIncreasing(solution.vec)
          /\ Range(solution.vec) \subseteq 1..n
    /\ (DynamicCalled /\ ExhaustiveCalled
          /\ Range(dynamic_solution.vec) = Range(solution.vec))
       => dynamic_solution.vec = Reverse(solution.vec)

(* Both solvers chose the same two or more items.                          *)
C10_Witness ==
    /\ DynamicCalled
    /\ ExhaustiveCalled
    /\ Len(solution.vec) >= 2
    /\ Range(dynamic_solution.vec) = Range(solution.vec)

====
